---- MODULE Spec2Model ----
(***************************************************************************)
(* SCORE2 cardiovascular risk calculator: the risk engine of               *)
(* src/src/utils/score2Calculator.js as a state machine.                   *)
(*                                                                         *)
(* The engine computes with IEEE doubles.  The model computes the same     *)
(* formulas in decimal fixed point: a real x is held as the integer        *)
(* floor(x * SCALE) (eight decimals), a percentage, a risk ratio and a     *)
(* cholesterol value as floor(x * PCT) (six decimals).  Math.log and       *)
(* Math.exp are evaluated by range reduction and power series to that      *)
(* precision; every intermediate value stays below 2^31.                   *)
(*                                                                         *)
(* Around the engine: validateSCORE2Inputs, the App component of           *)
(* src/src/App.jsx with the report of src/src/utils/pdfExport.js, and the  *)
(* what-if panel of src/src/components/WhatIfSimulation.jsx.  Each has its *)
(* own specification over its own variables; the variables of the others   *)
(* stay at their initial values.                                           *)
(***************************************************************************)
EXTENDS Integers, Sequences, FiniteSets, TLC

VARIABLES
  params,            \* the argument object of the call
  result,            \* what the call returned
  calls,             \* the calls made so far, oldest first
  formData,          \* App: the form's state
  results,           \* App: the result on display, or null
  showResults,       \* App: whether the results pane is shown
  alertShown,        \* App: the messages of the last alert; empty before any
  computedFrom,      \* App: the form state results was computed from, or null
  report,            \* the report object generatePDFReport built last
  shared,            \* the results shareResults summarised last
  simulationParams,  \* what-if panel: its parameter state
  isNonSmoker,       \* what-if panel: the switch
  simulatedRisk,     \* what-if panel: the simulated result
  originalRisk,      \* what-if panel: the originalRisk prop
  effectPending,     \* what-if panel: the effect is scheduled and has not run
  navigator,         \* which of navigator.share and navigator.clipboard exist
  shares             \* the calls of shareResults so far, each with its progress

harnessVars == <<params, result>>

appVars == <<formData, results, showResults, alertShown, computedFrom, report, shared>>

whatIfVars == <<simulationParams, isNonSmoker, simulatedRisk, originalRisk, effectPending>>

shareVars == <<navigator, shares>>

vars == <<params, result, calls, formData, results, showResults, alertShown,
          computedFrom, report, shared, simulationParams, isNonSmoker,
          simulatedRisk, originalRisk, effectPending, navigator, shares>>

----------------------------------------------------------------------------
(* Fixed-point arithmetic standing for the engine's double arithmetic.     *)

SCALE == 10^8
PCT == 10^6
LIMB == 10^4

\* The double NaN: a value no arithmetic of the model yields.
NaN == -2147483647

Abs(x) == IF x < 0 THEN -x ELSE x

Sgn(x) == IF x < 0 THEN -1 ELSE 1

Max(a, b) == IF a >= b THEN a ELSE b

Min(a, b) == IF a <= b THEN a ELSE b

\* floor(a * b / SCALE) for naturals a, b, by limbs of four decimal digits.
MulNat(a, b) ==
  LET a1 == a \div LIMB
      a0 == a % LIMB
      b1 == b \div LIMB
      b0 == b % LIMB
  IN  a1 * b1 + ((a1 * b0 + a0 * b1) + ((a0 * b0) \div LIMB)) \div LIMB

\* The product x * y of two SCALE-held reals.
MulFix(x, y) == Sgn(x) * Sgn(y) * MulNat(Abs(x), Abs(y))

\* Long division: n more decimal digits of r / b appended to acc.
RECURSIVE DivDigits(_, _, _, _)
DivDigits(r, b, n, acc) ==
  IF n = 0 THEN acc
  ELSE DivDigits((r * 10) % b, b, n - 1, acc * 10 + ((r * 10) \div b))

\* floor((a / b) * 10^n) for naturals a and b > 0.
DivNat(a, b, n) == DivDigits(a % b, b, n, a \div b)

\* ln 2, held at SCALE.
LN2 == 69314718

\* ln(num / den) for den <= num * 4/3 <= 2 * den:
\* 2 * atanh(z) with z = (num - den) / (num + den), as a power series in z.
LnSeries(num, den) ==
  LET z  == Sgn(num - den) * DivNat(Abs(num - den), num + den, 8)
      z2 == MulFix(z, z)
      p7 == SCALE \div 15
      p6 == (SCALE \div 13) + MulFix(z2, p7)
      p5 == (SCALE \div 11) + MulFix(z2, p6)
      p4 == (SCALE \div 9) + MulFix(z2, p5)
      p3 == (SCALE \div 7) + MulFix(z2, p4)
      p2 == (SCALE \div 5) + MulFix(z2, p3)
      p1 == (SCALE \div 3) + MulFix(z2, p2)
      p0 == SCALE + MulFix(z2, p1)
  IN  2 * MulFix(z, p0)

\* Math.log(num / den) for positive num, den: halve or double the ratio into
\* [3/4, 3/2], then the series.
RECURSIVE Ln(_, _)
Ln(num, den) ==
  IF 2 * num > 3 * den THEN Ln(num, 2 * den) + LN2
  ELSE IF 4 * num < 3 * den THEN Ln(2 * num, den) - LN2
  ELSE LnSeries(num, den)

\* e^r for |r| <= ln(2)/2: the Taylor polynomial of degree 10, by Horner.
ExpSeries(r) ==
  LET q10 == SCALE
      q9 == SCALE + (MulFix(r, q10) \div 10)
      q8 == SCALE + (MulFix(r, q9) \div 9)
      q7 == SCALE + (MulFix(r, q8) \div 8)
      q6 == SCALE + (MulFix(r, q7) \div 7)
      q5 == SCALE + (MulFix(r, q6) \div 6)
      q4 == SCALE + (MulFix(r, q5) \div 5)
      q3 == SCALE + (MulFix(r, q4) \div 4)
      q2 == SCALE + (MulFix(r, q3) \div 3)
      q1 == SCALE + (MulFix(r, q2) \div 2)
  IN  SCALE + MulFix(r, q1)

\* The largest argument whose exponential is held below 2^31.  The engine's
\* only use of a larger one is exp(riskScore) * baselineRisk, which is then
\* above ln 2 either way, so the percentage is cut to 50 by Math.min.
ExpArgMax == 3 * SCALE

\* Math.exp(x): x = k * ln 2 + r, e^x = 2^k * e^r.
Exp(x) ==
  LET y == Min(x, ExpArgMax)
      k == (y + (LN2 \div 2)) \div LN2
      r == y - k * LN2
  IN  IF k >= 0 THEN ExpSeries(r) * (2 ^ k)
      ELSE IF k < -30 THEN 0
      ELSE ExpSeries(r) \div (2 ^ (-k))

----------------------------------------------------------------------------
(* The engine's numeric constants.  Coefficients, factors and baselines    *)
(* are held at SCALE; percentages and cholesterol values at PCT.           *)

MG_DL_PER_MMOL_X100 == 3867
REF_AGE == 40
REF_SBP == 120
REF_CHOL == 5000000
REF_HDL == 1300000
AGE_COEF_MALE == 80000000
AGE_COEF_FEMALE == 70000000
SEX_COMPONENT_MALE == 50000000
SMOKING_COMPONENT == 60000000
BP_COEF == 40000000
CHOL_COEF == 30000000
HDL_COEF == 20000000
DIABETES_COMPONENT == 40000000
FACTOR_LOW == 70000000
FACTOR_MODERATE == 100000000
FACTOR_HIGH == 140000000
FACTOR_VERY_HIGH == 180000000
OP_AGE == 70
OP_MULTIPLIER == 120000000
BASELINE_OP == 15000000
BASELINE == 8000000
MIN_RISK == 100000
MAX_RISK == 50000000
MAX_HEART_AGE == 100
HEART_AGE_YEARS_PER_RATIO == 10
BAND_AGE == 50
YOUNG_LOW == 2500000
YOUNG_MODERATE == 7500000
YOUNG_HIGH == 10000000
OLD_LOW == 5000000
OLD_MODERATE == 10000000
OLD_HIGH == 15000000
BP_TREAT == 140
BP_MONITOR == 130
CHOL_TREAT == 5500000

----------------------------------------------------------------------------
(* calculateSCORE2Risk and its helpers.                                    *)
(*                                                                         *)
(* params is a record: age and systolicBP are integers; totalCholesterol   *)
(* and hdlCholesterol are held at PCT in the unit cholesterolUnit names,   *)
(* hdlCholesterol = 0 standing for every falsy value (null, undefined, 0,  *)
(* the empty field); diabetes is "yes", "no" or "" (not given).            *)

\* The conversion with glucose's factor, 18.02 mg/dL per mmol/L.
MgdlToMmolGlucoseFactor(x) ==
  (x \div 1802) * 100 + (((x % 1802) * 100) \div 1802)

\* x / 38.67 on a PCT-held value: floor(x * 100 / 3867), without overflow.
MgdlToMmol(x) ==
  (x \div MG_DL_PER_MMOL_X100) * 100
    + (((x % MG_DL_PER_MMOL_X100) * 100) \div MG_DL_PER_MMOL_X100)

\* x + y of doubles: NaN when either is.
Plus(x, y) == IF x = NaN \/ y = NaN THEN NaN ELSE x + y

\* x * y of doubles: NaN when either is.
Times(x, y) == IF x = NaN \/ y = NaN THEN NaN ELSE MulFix(x, y)

\* x / y of positive doubles, held at PCT: NaN when either is.
Quotient(x, y) == IF x = NaN \/ y = NaN THEN NaN ELSE DivNat(x, y, 6)

\* The property names an object literal inherits from Object.prototype.
InheritedKeys ==
  {"constructor", "hasOwnProperty", "isPrototypeOf", "propertyIsEnumerable",
   "toLocaleString", "toString", "valueOf", "__proto__", "__defineGetter__",
   "__defineSetter__", "__lookupGetter__", "__lookupSetter__"}

\* regionalFactors[region] || 1.0.  The lookup on the object literal finds
\* the four own keys, and for an inherited key a function (for __proto__ an
\* object): truthy, so the default is not taken, and NaN as a factor.
regionalFactor(region) ==
  CASE region = "low" -> FACTOR_LOW
    [] region = "moderate" -> FACTOR_MODERATE
    [] region = "high" -> FACTOR_HIGH
    [] region = "very-high" -> FACTOR_VERY_HIGH
    [] region \in InheritedKeys -> NaN
    [] OTHER -> SCALE

\* (1 - Math.exp(-Math.exp(riskScore) * baselineRisk)) * 100, held at PCT.
\* One unit of a SCALE-held fraction is one unit of a PCT-held percentage.
toPercentage(riskScore, baselineRisk) ==
  IF riskScore = NaN THEN NaN
  ELSE (SCALE - Exp(-MulFix(Exp(riskScore), baselineRisk)))
         * ((100 * PCT) \div SCALE)

\* clampRisk without its Math.min(50, ...).
clampRiskNoCeiling(riskPercentage) == Max(MIN_RISK, riskPercentage)

\* Math.max(0.1, Math.min(50, riskPercentage)); Math.min and Math.max
\* return NaN when an argument is NaN.
clampRisk(riskPercentage) ==
  IF riskPercentage = NaN THEN NaN
  ELSE Max(MIN_RISK, Min(MAX_RISK, riskPercentage))

\* Lines 22-28: a cholesterol value in mmol/L.
toMmol(value, cholesterolUnit) ==
  IF cholesterolUnit = "mg/dL" THEN MgdlToMmol(value) ELSE value

\* The age test with > for >=.
useScore2OPStrict(age) == age > OP_AGE

\* Line 31: const useScore2OP = params.age >= 70
useScore2OPOf(age) == age >= OP_AGE

\* The age term with the two sexes' coefficients exchanged.
ageComponentCoefSwapped(age, sex) ==
  MulFix(Ln(age, REF_AGE),
         IF sex = "male" THEN AGE_COEF_FEMALE ELSE AGE_COEF_MALE)

\* Line 40
ageComponentOf(age, sex) ==
  MulFix(Ln(age, REF_AGE),
         IF sex = "male" THEN AGE_COEF_MALE ELSE AGE_COEF_FEMALE)

\* Line 44
sexComponentOf(sex) == IF sex = "male" THEN SEX_COMPONENT_MALE ELSE 0

\* The smoking term given to the wrong status.
smokingComponentSwapped(smoking) ==
  IF smoking = "non-smoker" THEN SMOKING_COMPONENT ELSE 0

\* Line 48
smokingComponentOf(smoking) ==
  IF smoking = "smoker" THEN SMOKING_COMPONENT ELSE 0

\* Line 52
bpComponentOf(systolicBP) == MulFix(Ln(systolicBP, REF_SBP), BP_COEF)

\* Line 56
cholComponentOf(totalChol) == MulFix(Ln(totalChol, REF_CHOL), CHOL_COEF)

\* Lines 60-63: nothing is added when hdlChol is falsy; Math.log of a
\* negative number is NaN.
hdlComponentOf(hdlChol) ==
  IF hdlChol = 0 THEN 0
  ELSE IF hdlChol < 0 THEN NaN
  ELSE -MulFix(Ln(hdlChol, REF_HDL), HDL_COEF)

\* The diabetes term added unless diabetes is 'no'.
diabetesComponentUnlessNo(diabetes) ==
  IF diabetes # "no" THEN DIABETES_COMPONENT ELSE 0

\* Lines 66-68
diabetesComponentOf(diabetes) ==
  IF diabetes = "yes" THEN DIABETES_COMPONENT ELSE 0

\* Lines 21-79: the accumulated score after the regional factor.
riskScoreOf(p) ==
  LET totalChol == toMmol(p.totalCholesterol, p.cholesterolUnit)
      hdlChol == IF p.hdlCholesterol # 0
                 THEN toMmol(p.hdlCholesterol, p.cholesterolUnit)
                 ELSE 0
      riskScore == Plus(ageComponentOf(p.age, p.sex) + sexComponentOf(p.sex)
                          + smokingComponentOf(p.smoking)
                          + bpComponentOf(p.systolicBP)
                          + cholComponentOf(totalChol)
                          + diabetesComponentOf(p.diabetes),
                        hdlComponentOf(hdlChol))
  IN  Times(riskScore, regionalFactor(p.region))

\* Lines 21-89: the percentage after the SCORE2-OP adjustment and the
\* exponential transformation, before the clamp.
riskPercentageBeforeClampOf(p) ==
  LET useScore2OP == useScore2OPOf(p.age)
      riskScore == IF useScore2OP
                   THEN Times(riskScoreOf(p), OP_MULTIPLIER)
                   ELSE riskScoreOf(p)
      baselineRisk == IF useScore2OP THEN BASELINE_OP ELSE BASELINE
  IN  toPercentage(riskScore, baselineRisk)

\* Lines 21-92: the clamped percentage, not yet rounded.
riskPercentageOf(p) == clampRisk(riskPercentageBeforeClampOf(p))

\* categorizeRisk with the age bands split at age <= 50.
categorizeRiskBandOffByOne(riskPercentage, age) ==
  IF age <= BAND_AGE
  THEN IF riskPercentage < YOUNG_LOW THEN "low"
       ELSE IF riskPercentage < YOUNG_MODERATE THEN "moderate"
       ELSE IF riskPercentage < YOUNG_HIGH THEN "high"
       ELSE "very-high"
  ELSE IF riskPercentage < OLD_LOW THEN "low"
       ELSE IF riskPercentage < OLD_MODERATE THEN "moderate"
       ELSE IF riskPercentage < OLD_HIGH THEN "high"
       ELSE "very-high"

\* Lines 119-131.  Every comparison with NaN is false, so for NaN both
\* chains fall through to their last return.
categorizeRisk(riskPercentage, age) ==
  IF riskPercentage = NaN THEN "very-high"
  ELSE IF age < BAND_AGE
  THEN IF riskPercentage < YOUNG_LOW THEN "low"
       ELSE IF riskPercentage < YOUNG_MODERATE THEN "moderate"
       ELSE IF riskPercentage < YOUNG_HIGH THEN "high"
       ELSE "very-high"
  ELSE IF riskPercentage < OLD_LOW THEN "low"
       ELSE IF riskPercentage < OLD_MODERATE THEN "moderate"
       ELSE IF riskPercentage < OLD_HIGH THEN "high"
       ELSE "very-high"

\* Object.assign(params, {...}) for the spread: the overrides are written into
\* the caller's object, and referenceParams is that object.
assignReferenceParams(p) ==
  LET overwritten == [p EXCEPT !.smoking = "non-smoker",
                               !.systolicBP = REF_SBP,
                               !.totalCholesterol = REF_CHOL,
                               !.diabetes = "no"]
  IN  [params |-> overwritten, referenceParams |-> overwritten]

\* Lines 138-144: const referenceParams = { ...params, smoking: 'non-smoker',
\* systolicBP: 120, totalCholesterol: 5.0, diabetes: 'no' }.  The spread
\* copies the fields into a new object; the two objects after the statement.
spreadReferenceParams(p) ==
  [params |-> p,
   referenceParams |-> [p EXCEPT !.smoking = "non-smoker",
                                 !.systolicBP = REF_SBP,
                                 !.totalCholesterol = REF_CHOL,
                                 !.diabetes = "no"]]

\* Lines 138-199 of calculateHeartAge: the reference profile and its score
\* after the regional factor, by the duplicated formula.  The converted
\* totalChol of the reference profile is computed and never read: the
\* cholesterol term is Math.log(5.0 / 5.0) * 0.3 whatever the unit.
referenceRiskScoreOf(p) ==
  LET referenceParams == spreadReferenceParams(p).referenceParams
      hdlChol == IF referenceParams.cholesterolUnit = "mg/dL"
                      /\ referenceParams.hdlCholesterol # 0
                 THEN MgdlToMmol(referenceParams.hdlCholesterol)
                 ELSE referenceParams.hdlCholesterol
      ageComponent ==
        MulFix(Ln(referenceParams.age, REF_AGE),
               IF referenceParams.sex = "male" THEN AGE_COEF_MALE
                                               ELSE AGE_COEF_FEMALE)
      sexComponent == IF referenceParams.sex = "male" THEN SEX_COMPONENT_MALE
                                                      ELSE 0
      smokingComponent == 0
      bpComponent == MulFix(Ln(REF_SBP, REF_SBP), BP_COEF)
      cholComponent == MulFix(Ln(REF_CHOL, REF_CHOL), CHOL_COEF)
      hdlComponent == IF hdlChol = 0 THEN 0
                      ELSE IF hdlChol < 0 THEN NaN
                      ELSE -MulFix(Ln(hdlChol, REF_HDL), HDL_COEF)
  IN  Times(Plus(ageComponent + sexComponent + smokingComponent + bpComponent
                   + cholComponent,
                 hdlComponent),
            regionalFactor(referenceParams.region))

\* Line 159: const useScore2OP = referenceParams.age >= 70
referenceUseScore2OPOf(age) == age >= OP_AGE

\* Lines 201-211: the reference percentage, clamped.
referenceRiskPercentageOf(p) ==
  LET useScore2OP == referenceUseScore2OPOf(p.age)
      referenceRiskScore == IF useScore2OP
                            THEN Times(referenceRiskScoreOf(p), OP_MULTIPLIER)
                            ELSE referenceRiskScoreOf(p)
      baselineRisk == IF useScore2OP THEN BASELINE_OP ELSE BASELINE
  IN  clampRisk(toPercentage(referenceRiskScore, baselineRisk))

\* riskPercentage / referenceRiskPercentage, held at PCT.
riskRatioOf(p, riskPercentage) ==
  Quotient(riskPercentage, referenceRiskPercentageOf(p))

\* Math.round(age + (riskRatio - 1) * 10) = floor(age + (riskRatio - 1) * 10
\* + 0.5), both sides of the floor divided by ten to stay below 2^31.
heartAgeUnclamped(age, riskRatio) ==
  IF riskRatio = NaN THEN NaN ELSE
  (age * (PCT \div HEART_AGE_YEARS_PER_RATIO)
     + ((PCT \div HEART_AGE_YEARS_PER_RATIO) \div 2)
     + (riskRatio - PCT)) \div (PCT \div HEART_AGE_YEARS_PER_RATIO)

\* calculateHeartAge without the final Math.max / Math.min.
calculateHeartAgeUnclamped(p, riskPercentage) ==
  heartAgeUnclamped(p.age, riskRatioOf(p, riskPercentage))

\* Math.max(age, Math.min(100, heartAge)), NaN for NaN.
clampHeartAge(age, heartAge) ==
  IF heartAge = NaN THEN NaN ELSE Max(age, Min(MAX_HEART_AGE, heartAge))

calculateHeartAge(p, riskPercentage) ==
  clampHeartAge(p.age, heartAgeUnclamped(p.age, riskRatioOf(p, riskPercentage)))

\* Lines 226-230
smokingRecommendations(p) ==
  IF p.smoking = "smoker"
  THEN << "Quit smoking - this is the single most important step to reduce your cardiovascular risk",
          "Consider nicotine replacement therapy or consult your doctor about smoking cessation aids" >>
  ELSE << >>

\* The blood-pressure advice with the first test as >= 140.
bloodPressureRecommendationsFrom140(p) ==
  IF p.systolicBP >= BP_TREAT
  THEN << "Discuss blood pressure management with your doctor",
          "Reduce salt intake and increase physical activity",
          "Consider antihypertensive medication if lifestyle changes are insufficient" >>
  ELSE IF p.systolicBP > BP_MONITOR
  THEN << "Monitor blood pressure regularly and maintain a healthy lifestyle" >>
  ELSE << >>

\* Lines 232-239
bloodPressureRecommendations(p) ==
  IF p.systolicBP > BP_TREAT
  THEN << "Discuss blood pressure management with your doctor",
          "Reduce salt intake and increase physical activity",
          "Consider antihypertensive medication if lifestyle changes are insufficient" >>
  ELSE IF p.systolicBP > BP_MONITOR
  THEN << "Monitor blood pressure regularly and maintain a healthy lifestyle" >>
  ELSE << >>

\* Lines 241-249
cholesterolRecommendations(p) ==
  LET totalCholMmol == IF p.cholesterolUnit = "mg/dL"
                       THEN MgdlToMmol(p.totalCholesterol)
                       ELSE p.totalCholesterol
  IN  IF totalCholMmol > CHOL_TREAT
      THEN << "Discuss cholesterol management with your doctor",
              "Follow a Mediterranean-style diet rich in fruits, vegetables, and healthy fats",
              "Consider statin therapy if dietary changes are insufficient" >>
      ELSE << >>

\* The diabetes advice without its third string.
diabetesRecommendationsWithoutMedication(p) ==
  IF p.diabetes = "yes"
  THEN << "Maintain optimal blood glucose control",
          "Regular monitoring of HbA1c levels" >>
  ELSE << >>

\* The diabetes advice for every value other than 'no'.
diabetesRecommendationsUnlessNo(p) ==
  IF p.diabetes # "no"
  THEN << "Maintain optimal blood glucose control",
          "Regular monitoring of HbA1c levels",
          "Consider additional cardiovascular protection medications" >>
  ELSE << >>

\* Lines 251-256
diabetesRecommendations(p) ==
  IF p.diabetes = "yes"
  THEN << "Maintain optimal blood glucose control",
          "Regular monitoring of HbA1c levels",
          "Consider additional cardiovascular protection medications" >>
  ELSE << >>

\* Lines 258-264
generalRecommendations(riskCategory) ==
  IF riskCategory \in {"moderate", "high", "very-high"}
  THEN << "Engage in regular physical activity (at least 150 minutes of moderate exercise per week)",
          "Maintain a healthy weight (BMI 18.5-24.9)",
          "Limit alcohol consumption",
          "Consider low-dose aspirin therapy (consult your doctor)" >>
  ELSE << >>

\* The maintenance advice for the category moderate as well.
lowRiskRecommendationsBelowHigh(riskCategory) ==
  IF riskCategory \in {"low", "moderate"}
  THEN << "Maintain your current healthy lifestyle",
          "Continue regular physical activity and healthy diet",
          "Regular health check-ups every 2-3 years" >>
  ELSE << >>

\* Lines 266-271
lowRiskRecommendations(riskCategory) ==
  IF riskCategory = "low"
  THEN << "Maintain your current healthy lifestyle",
          "Continue regular physical activity and healthy diet",
          "Regular health check-ups every 2-3 years" >>
  ELSE << >>

\* The groups pushed with the category's advice first.
generateRecommendationsCategoryFirst(p, riskCategory) ==
  generalRecommendations(riskCategory) \o lowRiskRecommendations(riskCategory)
    \o smokingRecommendations(p) \o bloodPressureRecommendations(p)
    \o cholesterolRecommendations(p) \o diabetesRecommendations(p)

\* The groups with a weight advice for a bmi above 30 pushed last.
generateRecommendationsWithWeightAdvice(p, riskCategory) ==
  smokingRecommendations(p) \o bloodPressureRecommendations(p)
    \o cholesterolRecommendations(p) \o diabetesRecommendations(p)
    \o generalRecommendations(riskCategory) \o lowRiskRecommendations(riskCategory)
    \o (IF p.bmi # NaN /\ p.bmi > 30 * PCT
        THEN << "Discuss weight management with your doctor" >> ELSE << >>)

\* Lines 223-274: each group is pushed onto the one array, in this order.
generateRecommendations(p, riskCategory) ==
  smokingRecommendations(p) \o bloodPressureRecommendations(p)
    \o cholesterolRecommendations(p) \o diabetesRecommendations(p)
    \o generalRecommendations(riskCategory) \o lowRiskRecommendations(riskCategory)

\* Math.round(x) of a PCT-held x, as an integer.
roundToInteger(x) == IF x = NaN THEN NaN ELSE (x + (PCT \div 2)) \div PCT

\* Math.round(x * 10) / 10 of a PCT-held x, held at PCT.
roundToTenth(x) ==
  IF x = NaN THEN NaN
  ELSE ((x + (PCT \div 20)) \div (PCT \div 10)) * (PCT \div 10)

\* The sentence with Math.floor for Math.round.
generateInterpretationTruncating(riskPercentage, sex) ==
  LET roundedRisk == riskPercentage \div PCT
      pronoun == IF sex = "male" THEN "men" ELSE "women"
  IN  << "This means out of 100 ", pronoun, " like you, about ", roundedRisk,
         " will have a heart attack or stroke in the next 10 years." >>

\* The template string, as the sequence of its literal and filled-in parts.
generateInterpretation(riskPercentage, sex) ==
  LET roundedRisk == roundToInteger(riskPercentage)
      pronoun == IF sex = "male" THEN "men" ELSE "women"
  IN  << "This means out of 100 ", pronoun, " like you, about ", roundedRisk,
         " will have a heart attack or stroke in the next 10 years." >>

\* Lines 98-113: the returned object, from the clamped percentage and its
\* category.
resultOf(p, riskPercentage, riskCategory) ==
  [riskPercentage |-> roundToTenth(riskPercentage),
   riskCategory |-> riskCategory,
   heartAge |-> calculateHeartAge(p, riskPercentage),
   interpretation |-> generateInterpretation(riskPercentage, p.sex),
   recommendations |-> generateRecommendations(p, riskCategory),
   algorithm |-> IF useScore2OPOf(p.age) THEN "SCORE2-OP" ELSE "SCORE2"]

\* The category taken from the percentage as returned, rounded first.
categorizedResultOfRounded(p, riskPercentage) ==
  resultOf(p, riskPercentage, categorizeRisk(roundToTenth(riskPercentage), p.age))

\* Lines 95-113: the category is taken from the percentage before rounding.
categorizedResultOf(p, riskPercentage) ==
  resultOf(p, riskPercentage, categorizeRisk(riskPercentage, p.age))

\* Lines 20-114
calculateSCORE2Risk(p) == categorizedResultOf(p, riskPercentageOf(p))

----------------------------------------------------------------------------
(* The inputs the engine is applied to.  Every sample passes               *)
(* validateSCORE2Inputs: age 40..100, systolicBP 80..250, cholesterol > 0. *)

AgeSamples == << 40, 70, 49, 50, 69, 100, 55, 85 >>

SbpSamples == << 80, 120, 150, 135, 250 >>

\* Cholesterol profiles, held at PCT: 5.0 mmol/L without HDL; 193.35 mg/dL
\* (5.0 mmol/L) with HDL 58.005 mg/dL (1.5 mmol/L); 6.2 mmol/L with HDL 1.0;
\* 0.01 mmol/L with HDL 20.0, which validateSCORE2Inputs accepts (it asks
\* only for totalCholesterol > 0, line 312) and which drives the score far
\* below zero; 3.0 mmol/L with HDL 2.5; 239.754 mg/dL (6.2 mmol/L) with HDL
\* 38.67 mg/dL (1.0 mmol/L).
LipidSamples ==
  << [totalCholesterol |-> 5000000, cholesterolUnit |-> "mmol/L", hdlCholesterol |-> 0],
     [totalCholesterol |-> 193350000, cholesterolUnit |-> "mg/dL", hdlCholesterol |-> 58005000],
     [totalCholesterol |-> 6200000, cholesterolUnit |-> "mmol/L", hdlCholesterol |-> 1000000],
     [totalCholesterol |-> 10000, cholesterolUnit |-> "mmol/L", hdlCholesterol |-> 20000000],
     [totalCholesterol |-> 3000000, cholesterolUnit |-> "mmol/L", hdlCholesterol |-> 2500000],
     [totalCholesterol |-> 239754000, cholesterolUnit |-> "mg/dL", hdlCholesterol |-> 38670000] >>

NumAges == 6
NumSbps == 3
NumLipids == 5

Ages == {AgeSamples[i] : i \in 1..Min(NumAges, Len(AgeSamples))}

Sbps == {SbpSamples[i] : i \in 1..Min(NumSbps, Len(SbpSamples))}

Lipids == {LipidSamples[i] : i \in 1..Min(NumLipids, Len(LipidSamples))}

Sexes == {"male", "female"}

Regions == {"low", "moderate", "high", "very-high"}

SmokingValues == {"smoker", "non-smoker"}

DiabetesValues == {"yes", "no", ""}

ParamSpace ==
  {[age |-> a, sex |-> s, region |-> r, smoking |-> k, systolicBP |-> b,
    totalCholesterol |-> l.totalCholesterol,
    cholesterolUnit |-> l.cholesterolUnit,
    hdlCholesterol |-> l.hdlCholesterol, diabetes |-> d] :
     a \in Ages, s \in Sexes, r \in Regions, k \in SmokingValues,
     b \in Sbps, l \in Lipids, d \in DiabetesValues}

\* No call has returned yet.
NoResult == [returned |-> FALSE]

\* JavaScript's null.
Null == [null |-> TRUE]

\* useState('') for the text and choice fields, 'mmol/L' for the unit.
EmptyForm ==
  [age |-> << >>, sex |-> "", region |-> "", smoking |-> "",
   systolicBP |-> << >>, totalCholesterol |-> << >>,
   cholesterolUnit |-> "mmol/L", hdlCholesterol |-> << >>, diabetes |-> "",
   bmi |-> << >>]

\* The App component as mounted, nothing exported or shared yet.
AppMounted ==
  /\ formData = EmptyForm
  /\ results = Null
  /\ showResults = FALSE
  /\ alertShown = << >>
  /\ computedFrom = Null
  /\ report = Null
  /\ shared = Null

\* shareResults has not been called.
NothingShared ==
  /\ navigator = Null
  /\ shares = << >>

\* The what-if panel is not mounted.
WhatIfUnmounted ==
  /\ simulationParams = Null
  /\ isNonSmoker = FALSE
  /\ simulatedRisk = Null
  /\ originalRisk = Null
  /\ effectPending = FALSE

Init ==
  /\ params \in ParamSpace
  /\ result = NoResult
  /\ calls = << >>
  /\ AppMounted
  /\ NothingShared
  /\ WhatIfUnmounted

\* A caller applies the engine to its parameter set and keeps what it returns.
Calculate ==
  /\ result = NoResult
  /\ result' = calculateSCORE2Risk(params)
  /\ UNCHANGED <<params, calls, appVars, whatIfVars, shareVars>>

Next == Calculate

Spec == Init /\ [][Next]_vars

Returned == result # NoResult

----------------------------------------------------------------------------
(* C1.  Range of the returned percentage.                                  *)

\* C1: for every valid parameter set the returned riskPercentage r satisfies
\* 0.1 <= r <= 50.
C1_RiskPercentageInRange ==
  Returned =>
    /\ result.riskPercentage >= PCT \div 10
    /\ result.riskPercentage <= 50 * PCT

\* A result whose percentage before the clamp was above 50.
C1_Witness ==
  /\ Returned
  /\ riskPercentageBeforeClampOf(params) > 50 * PCT
  /\ result.riskPercentage = 50 * PCT

----------------------------------------------------------------------------
(* C2.  Category against the returned, rounded percentage.                 *)

\* The age-banded category table as the claim states it.
CategoryOfReported(reported, age) ==
  IF age < 50
  THEN CASE reported < (5 * PCT) \div 2 -> "low"
         [] reported >= (5 * PCT) \div 2 /\ reported < (15 * PCT) \div 2 -> "moderate"
         [] reported >= (15 * PCT) \div 2 /\ reported < 10 * PCT -> "high"
         [] OTHER -> "very-high"
  ELSE CASE reported < 5 * PCT -> "low"
         [] reported >= 5 * PCT /\ reported < 10 * PCT -> "moderate"
         [] reported >= 10 * PCT /\ reported < 15 * PCT -> "high"
         [] OTHER -> "very-high"

CutPoints(age) ==
  IF age < 50 THEN {(5 * PCT) \div 2, (15 * PCT) \div 2, 10 * PCT}
              ELSE {5 * PCT, 10 * PCT, 15 * PCT}

\* C2 as claimed: riskCategory is exactly the age-banded category of the
\* returned one-decimal riskPercentage.
C2_CategoryOfReported ==
  Returned =>
    result.riskCategory = CategoryOfReported(result.riskPercentage, params.age)

\* C2 as amended: riskCategory is the age-banded category of the returned
\* riskPercentage, except that when the returned riskPercentage equals a cut
\* point of its age band riskCategory may be the category just below that cut
\* point (the percentage was rounded up to the cut point after it had been
\* categorized).
C2_CategoryOfReportedOrJustBelowCut ==
  Returned =>
    \/ result.riskCategory = CategoryOfReported(result.riskPercentage, params.age)
    \/ /\ result.riskPercentage \in CutPoints(params.age)
       /\ result.riskCategory =
            CategoryOfReported(result.riskPercentage - PCT \div 10, params.age)

\* A result reported at a cut point and categorized below it.
C2_Witness ==
  /\ Returned
  /\ result.riskPercentage \in CutPoints(params.age)
  /\ result.riskCategory # CategoryOfReported(result.riskPercentage, params.age)

----------------------------------------------------------------------------
(* C3.  Ordering by region.                                                *)

RegionRank(region) ==
  CASE region = "low" -> 0
    [] region = "moderate" -> 1
    [] region = "high" -> 2
    [] region = "very-high" -> 3

\* C3: for parameter sets that differ only in region, the returned
\* riskPercentage is ordered very-high >= high >= moderate >= low.
C3_RegionOrdering ==
  Returned =>
    \A r \in Regions :
      RegionRank(r) > RegionRank(params.region) =>
        calculateSCORE2Risk([params EXCEPT !.region = r]).riskPercentage
          >= result.riskPercentage

----------------------------------------------------------------------------
(* C4.  Smoking.                                                           *)

NonSmoker(p) == [p EXCEPT !.smoking = "non-smoker"]

\* C4 as claimed: changing only smoking from smoker to non-smoker yields a
\* strictly smaller returned riskPercentage, also at the clamps.
C4_SmokingStrictlyDecreases ==
  (Returned /\ params.smoking = "smoker") =>
    calculateSCORE2Risk(NonSmoker(params)).riskPercentage < result.riskPercentage

\* C4 as amended: changing only smoking from smoker to non-smoker never
\* yields a larger returned riskPercentage; the percentage before rounding is
\* strictly smaller unless both are clamped to 50 or both to 0.1.
C4_SmokingNeverIncreases ==
  (Returned /\ params.smoking = "smoker") =>
    /\ calculateSCORE2Risk(NonSmoker(params)).riskPercentage
         <= result.riskPercentage
    /\ \/ riskPercentageOf(NonSmoker(params)) < riskPercentageOf(params)
       \/ /\ riskPercentageOf(params) = 50 * PCT
          /\ riskPercentageOf(NonSmoker(params)) = 50 * PCT
       \/ /\ riskPercentageOf(params) = PCT \div 10
          /\ riskPercentageOf(NonSmoker(params)) = PCT \div 10

\* A smoker whose result and whose non-smoking counterpart's are both 50.
C4_Witness ==
  /\ Returned
  /\ params.smoking = "smoker"
  /\ result.riskPercentage = 50 * PCT
  /\ calculateSCORE2Risk(NonSmoker(params)).riskPercentage = 50 * PCT

----------------------------------------------------------------------------
(* C5.  Age.                                                               *)

\* C5: for parameter sets that differ only in age, the returned
\* riskPercentage is non-decreasing in age, across age 69 -> 70 too.
C5_AgeMonotone ==
  Returned =>
    \A a \in Ages :
      a > params.age =>
        calculateSCORE2Risk([params EXCEPT !.age = a]).riskPercentage
          >= result.riskPercentage

----------------------------------------------------------------------------
(* C6.  Heart age.                                                         *)

\* C6: the returned heartAge is an integer with age <= heartAge <= 100,
\* whatever the ratio of the patient's risk to the reference risk.
C6_HeartAgeInRange ==
  Returned => result.heartAge \in params.age..100

\* A patient younger than 100 whose unclamped heart age was above 100.
C6_Witness ==
  /\ Returned
  /\ params.age < 100
  /\ heartAgeUnclamped(params.age,
                       riskRatioOf(params, riskPercentageOf(params))) > 100
  /\ result.heartAge = 100

----------------------------------------------------------------------------
(* C7.  The duplicated formula of calculateHeartAge against the main one.  *)

\* The input with its modifiable factors replaced as the claim states.
ReferenceProfile(p) ==
  [p EXCEPT !.smoking = "non-smoker", !.systolicBP = 120,
            !.totalCholesterol = 5 * PCT, !.diabetes = "no"]

\* x mmol/L in mg/dL (x * 38.67), for x a multiple of 0.0001.
MmolInMgdl(x) == (x \div 100) * 3867

\* C7 as claimed: the reference percentage of calculateHeartAge equals the
\* main computation's percentage on the input with smoking = non-smoker,
\* systolicBP = 120, totalCholesterol = 5.0, diabetes = no and age, sex,
\* region, HDL and cholesterolUnit unchanged.
C7_ReferenceIsMainOnReferenceProfile ==
  Returned =>
    referenceRiskPercentageOf(params) = riskPercentageOf(ReferenceProfile(params))

\* C7 as amended: the reference percentage equals the main computation's
\* percentage on the input with smoking = non-smoker, systolicBP = 120,
\* diabetes = no and a total cholesterol of 5.0 mmol/L (193.35 when the
\* cholesterolUnit is mg/dL), with age, sex, region, HDL and cholesterolUnit
\* unchanged.
C7_ReferenceIsMainAtFiveMmol ==
  Returned =>
    referenceRiskPercentageOf(params) =
      riskPercentageOf(
        [ReferenceProfile(params) EXCEPT
           !.totalCholesterol = IF params.cholesterolUnit = "mg/dL"
                                THEN MmolInMgdl(5 * PCT) ELSE 5 * PCT])

\* An input in mg/dL with HDL, where the two readings of 5.0 differ.
C7_Witness ==
  /\ Returned
  /\ params.cholesterolUnit = "mg/dL"
  /\ params.hdlCholesterol # 0
  /\ riskPercentageOf(ReferenceProfile(params))
       # riskPercentageOf([ReferenceProfile(params) EXCEPT
                             !.totalCholesterol = MmolInMgdl(5 * PCT)])

----------------------------------------------------------------------------
(* C8.  An input that already is the reference profile.                    *)

AtReferenceProfile(p) ==
  /\ p.smoking = "non-smoker"
  /\ p.systolicBP = 120
  /\ \/ p.cholesterolUnit = "mmol/L" /\ p.totalCholesterol = 5 * PCT
     \/ p.cholesterolUnit = "mg/dL" /\ p.totalCholesterol = MmolInMgdl(5 * PCT)
  /\ p.diabetes # "yes"

\* C8: with smoking = non-smoker, systolicBP = 120, total cholesterol of
\* 5.0 mmol/L and diabetes not 'yes', the risk ratio is 1 and heartAge = age,
\* for any age, sex, region and HDL.
C8_ReferenceProfileHeartAgeIsAge ==
  (Returned /\ AtReferenceProfile(params)) =>
    /\ riskRatioOf(params, riskPercentageOf(params)) = PCT
    /\ result.heartAge = params.age

\* A reference-profile input in mg/dL, with HDL and diabetes not given.
C8_Witness ==
  /\ Returned
  /\ AtReferenceProfile(params)
  /\ params.cholesterolUnit = "mg/dL"
  /\ params.hdlCholesterol # 0
  /\ params.diabetes = ""

----------------------------------------------------------------------------
(* C9.  Cholesterol units.                                                 *)

\* The same cholesterol values stated in mg/dL.
InMgdl(p) ==
  [p EXCEPT !.cholesterolUnit = "mg/dL",
            !.totalCholesterol = MmolInMgdl(@),
            !.hdlCholesterol = MmolInMgdl(@)]

----------------------------------------------------------------------------
(* C10.  The algorithm label and the age >= 70 flag.                       *)

\* C10: algorithm is 'SCORE2-OP' iff age >= 70 and 'SCORE2' otherwise; the
\* same test selects the 1.2 multiplier and the 0.15 (else 0.08) baseline in
\* the main and in the reference computation.
C10_AlgorithmAndFlag ==
  Returned =>
    LET older == params.age >= 70
        multiplier == IF older THEN (12 * SCALE) \div 10 ELSE SCALE
        baseline == IF older THEN (15 * SCALE) \div 100 ELSE (8 * SCALE) \div 100
    IN  /\ result.algorithm = IF older THEN "SCORE2-OP" ELSE "SCORE2"
        /\ riskPercentageOf(params) =
             clampRisk(toPercentage(MulFix(riskScoreOf(params), multiplier),
                                    baseline))
        /\ referenceRiskPercentageOf(params) =
             clampRisk(toPercentage(MulFix(referenceRiskScoreOf(params), multiplier),
                                    baseline))

\* A result for age exactly 70.
C10_Witness ==
  /\ Returned
  /\ params.age = 70
  /\ result.algorithm = "SCORE2-OP"

----------------------------------------------------------------------------
(* validateSCORE2Inputs.                                                   *)
(*                                                                         *)
(* Its argument may hold anything the caller parsed.  A numeric field is   *)
(* an integer (totalCholesterol held at PCT) or NaN; null and undefined    *)
(* behave as NaN does in every test the validator makes (all three are     *)
(* falsy), so NaN stands for the three.                                    *)

\* !x for a numeric x
Falsy(x) == x = NaN \/ x = 0

\* Line 292
ageErrors(p) ==
  IF Falsy(p.age) \/ p.age < 40 \/ p.age > 100
  THEN << "Age must be between 40 and 100 years" >>
  ELSE << >>

\* Line 296
sexErrors(p) ==
  IF p.sex = "" \/ p.sex \notin {"male", "female"}
  THEN << "Sex must be specified as male or female" >>
  ELSE << >>

\* Line 300
regionErrors(p) ==
  IF p.region = "" \/ p.region \notin {"low", "moderate", "high", "very-high"}
  THEN << "Risk region must be specified" >>
  ELSE << >>

\* Line 304
smokingErrors(p) ==
  IF p.smoking = "" \/ p.smoking \notin {"smoker", "non-smoker"}
  THEN << "Smoking status must be specified" >>
  ELSE << >>

\* Line 308
systolicBPErrors(p) ==
  IF Falsy(p.systolicBP) \/ p.systolicBP < 80 \/ p.systolicBP > 250
  THEN << "Systolic blood pressure must be between 80 and 250 mmHg" >>
  ELSE << >>

\* Line 312
totalCholesterolErrors(p) ==
  IF Falsy(p.totalCholesterol) \/ p.totalCholesterol <= 0
  THEN << "Total cholesterol must be specified and greater than 0" >>
  ELSE << >>

\* The validator returning at its first error.
validateSCORE2InputsFailFast(p) ==
  LET errors == ageErrors(p) \o sexErrors(p) \o regionErrors(p)
                  \o smokingErrors(p) \o systolicBPErrors(p)
                  \o totalCholesterolErrors(p)
  IN  IF errors = << >> THEN << >> ELSE << Head(errors) >>

\* Lines 289-317: every check runs and pushes onto errors.
validateSCORE2Inputs(p) ==
  ageErrors(p) \o sexErrors(p) \o regionErrors(p) \o smokingErrors(p)
    \o systolicBPErrors(p) \o totalCholesterolErrors(p)

\* What a caller may hand to the validator: values inside, on and outside
\* every limit, and fields that were never filled in.
UncheckedAges == {NaN, 0, 39, 40, 100, 101}

UncheckedSexes == {"", "male", "female", "Male"}

UncheckedRegions == {"", "low", "very-high", "north"}

UncheckedSmokingValues == {"", "smoker", "non-smoker", "yes"}

UncheckedSbps == {NaN, 79, 80, 250, 251}

UncheckedCholesterols == {NaN, 0, -PCT, PCT \div 100, 5 * PCT}

UncheckedParamSpace ==
  {[age |-> a, sex |-> s, region |-> r, smoking |-> k, systolicBP |-> b,
    totalCholesterol |-> c, cholesterolUnit |-> "mmol/L",
    hdlCholesterol |-> 0, diabetes |-> ""] :
     a \in UncheckedAges, s \in UncheckedSexes, r \in UncheckedRegions,
     k \in UncheckedSmokingValues, b \in UncheckedSbps,
     c \in UncheckedCholesterols}

ValidateInit ==
  /\ params \in UncheckedParamSpace
  /\ result = NoResult
  /\ calls = << >>
  /\ AppMounted
  /\ NothingShared
  /\ WhatIfUnmounted

\* A caller validates its parameter set and keeps the list it is given.
Validate ==
  /\ result = NoResult
  /\ result' = [errors |-> validateSCORE2Inputs(params)]
  /\ UNCHANGED <<params, calls, appVars, whatIfVars, shareVars>>

ValidateNext == Validate

ValidateSpec == ValidateInit /\ [][ValidateNext]_vars

Validated == result # NoResult

----------------------------------------------------------------------------
(* C11.  The validator collects every violation.                           *)

\* The six constraints, in the order the claim lists them.
C11_Holds(p) ==
  << p.age # NaN /\ p.age \in 40..100,
     p.sex \in {"male", "female"},
     p.region \in {"low", "moderate", "high", "very-high"},
     p.smoking \in {"smoker", "non-smoker"},
     p.systolicBP # NaN /\ p.systolicBP \in 80..250,
     p.totalCholesterol # NaN /\ p.totalCholesterol > 0 >>

C11_Messages ==
  << "Age must be between 40 and 100 years",
     "Sex must be specified as male or female",
     "Risk region must be specified",
     "Smoking status must be specified",
     "Systolic blood pressure must be between 80 and 250 mmHg",
     "Total cholesterol must be specified and greater than 0" >>

\* C11: validateSCORE2Inputs returns exactly one message per violated
\* constraint among the six, in that fixed order, never stopping at the first
\* problem; the list is empty if and only if all six constraints hold.
C11_OneMessagePerViolation ==
  Validated =>
    LET violated == SelectSeq(<< 1, 2, 3, 4, 5, 6 >>,
                              LAMBDA i : ~C11_Holds(params)[i])
    IN  /\ result.errors = [k \in 1..Len(violated) |-> C11_Messages[violated[k]]]
        /\ (result.errors = << >>) <=> (\A i \in 1..6 : C11_Holds(params)[i])

\* An input violating all six constraints, and the six messages returned.
C11_Witness ==
  /\ Validated
  /\ \A i \in 1..6 : ~C11_Holds(params)[i]
  /\ Len(result.errors) = 6

----------------------------------------------------------------------------
(* C12.  Advice that never depends on the rest of the profile.             *)

\* The strings of seq, as a set.
Range(seq) == {seq[i] : i \in DOMAIN seq}

\* C12: the recommendations contain all three diabetes-management strings
\* whenever diabetes = 'yes' and both quit-smoking strings whenever
\* smoking = 'smoker', whatever the other parameters and the risk category.
C12_DiabetesAndSmokingAdvice ==
  Returned =>
    /\ params.diabetes = "yes" =>
         {"Maintain optimal blood glucose control",
          "Regular monitoring of HbA1c levels",
          "Consider additional cardiovascular protection medications"}
           \subseteq Range(result.recommendations)
    /\ params.smoking = "smoker" =>
         {"Quit smoking - this is the single most important step to reduce your cardiovascular risk",
          "Consider nicotine replacement therapy or consult your doctor about smoking cessation aids"}
           \subseteq Range(result.recommendations)

\* A smoker with diabetes in the low category, whose other advice is the
\* maintenance group.
C12_Witness ==
  /\ Returned
  /\ params.diabetes = "yes"
  /\ params.smoking = "smoker"
  /\ result.riskCategory = "low"
  /\ "Regular monitoring of HbA1c levels" \in Range(result.recommendations)

----------------------------------------------------------------------------
(* C13.  The order of the recommendations.                                 *)

\* Every recommendation string, group after group in the order the claim
\* gives, with the group each belongs to.
C13_Catalogue ==
  << [group |-> 1, text |-> "Quit smoking - this is the single most important step to reduce your cardiovascular risk"],
     [group |-> 1, text |-> "Consider nicotine replacement therapy or consult your doctor about smoking cessation aids"],
     [group |-> 2, text |-> "Discuss blood pressure management with your doctor"],
     [group |-> 2, text |-> "Reduce salt intake and increase physical activity"],
     [group |-> 2, text |-> "Consider antihypertensive medication if lifestyle changes are insufficient"],
     [group |-> 2, text |-> "Monitor blood pressure regularly and maintain a healthy lifestyle"],
     [group |-> 3, text |-> "Discuss cholesterol management with your doctor"],
     [group |-> 3, text |-> "Follow a Mediterranean-style diet rich in fruits, vegetables, and healthy fats"],
     [group |-> 3, text |-> "Consider statin therapy if dietary changes are insufficient"],
     [group |-> 4, text |-> "Maintain optimal blood glucose control"],
     [group |-> 4, text |-> "Regular monitoring of HbA1c levels"],
     [group |-> 4, text |-> "Consider additional cardiovascular protection medications"],
     [group |-> 5, text |-> "Engage in regular physical activity (at least 150 minutes of moderate exercise per week)"],
     [group |-> 5, text |-> "Maintain a healthy weight (BMI 18.5-24.9)"],
     [group |-> 5, text |-> "Limit alcohol consumption"],
     [group |-> 5, text |-> "Consider low-dose aspirin therapy (consult your doctor)"],
     [group |-> 5, text |-> "Maintain your current healthy lifestyle"],
     [group |-> 5, text |-> "Continue regular physical activity and healthy diet"],
     [group |-> 5, text |-> "Regular health check-ups every 2-3 years"] >>

\* The place of a string in the catalogue; 0 when it is not there.
C13_Place(text) ==
  IF \E k \in DOMAIN C13_Catalogue : C13_Catalogue[k].text = text
  THEN CHOOSE k \in DOMAIN C13_Catalogue : C13_Catalogue[k].text = text
  ELSE 0

C13_Group(text) == C13_Catalogue[C13_Place(text)].group

\* C13: the recommendations appear in the group order smoking, blood
\* pressure, cholesterol, diabetes, category-general/maintenance: every string
\* of an earlier group precedes every string of a later group, the strings of
\* a group are contiguous and in their fixed order, and no string occurs twice.
C13_GroupOrder ==
  Returned =>
    LET recs == result.recommendations
    IN  /\ \A i \in DOMAIN recs : C13_Place(recs[i]) # 0
        /\ \A i, j \in DOMAIN recs :
             i < j =>
               /\ recs[i] # recs[j]
               /\ C13_Group(recs[i]) <= C13_Group(recs[j])
               /\ C13_Group(recs[i]) = C13_Group(recs[j]) =>
                    C13_Place(recs[i]) < C13_Place(recs[j])
        /\ \A i, j, k \in DOMAIN recs :
             (i < j /\ j < k /\ C13_Group(recs[i]) = C13_Group(recs[k])) =>
               C13_Group(recs[j]) = C13_Group(recs[i])

\* A result in which all five groups are present.
C13_Witness ==
  /\ Returned
  /\ {C13_Group(result.recommendations[i]) : i \in DOMAIN result.recommendations}
       = 1..5

----------------------------------------------------------------------------
(* C14.  The interpretation sentence.                                      *)

\* The nearest integer to a PCT-held percentage, halves upwards.
C14_Nearest(x) == (2 * x + PCT) \div (2 * PCT)

\* C14 as claimed: the count in the interpretation sentence equals the
\* returned riskPercentage rounded to the nearest integer, and the noun is
\* 'men' when sex = 'male' and 'women' otherwise.
C14_CountIsRoundedReported ==
  Returned =>
    /\ result.interpretation[4] = C14_Nearest(result.riskPercentage)
    /\ result.interpretation[2] = IF params.sex = "male" THEN "men" ELSE "women"

\* C14 as amended: the count in the interpretation sentence is the nearest
\* integer to the clamped percentage before its rounding to one decimal.  It
\* equals the returned riskPercentage rounded to the nearest integer unless
\* the returned riskPercentage ends in .5 after having been rounded up to it,
\* and then it is the integer below.  The noun is 'men' when sex = 'male' and
\* 'women' otherwise.
C14_CountIsRoundedUnrounded ==
  Returned =>
    /\ result.interpretation[4] = C14_Nearest(riskPercentageOf(params))
    /\ \/ result.interpretation[4] = C14_Nearest(result.riskPercentage)
       \/ /\ result.riskPercentage % PCT = PCT \div 2
          /\ riskPercentageOf(params) < result.riskPercentage
          /\ result.interpretation[4] = C14_Nearest(result.riskPercentage) - 1
    /\ result.interpretation[2] = IF params.sex = "male" THEN "men" ELSE "women"

\* A result whose percentage before rounding was just below a half.
C14_Witness ==
  /\ Returned
  /\ result.riskPercentage % PCT = PCT \div 2
  /\ riskPercentageOf(params) < result.riskPercentage

----------------------------------------------------------------------------
(* Callers applying the engine one call after another.  JavaScript runs a  *)
(* call to completion before the next starts; the module of the engine     *)
(* declares no variable outside its functions, so a call has the argument  *)
(* object to read and write and nothing else.                              *)

MaxCalls == 3

CallParamSpace ==
  {[age |-> a, sex |-> "male", region |-> "high", smoking |-> k,
    systolicBP |-> 150, totalCholesterol |-> 6200000,
    cholesterolUnit |-> "mmol/L", hdlCholesterol |-> 1000000,
    diabetes |-> d] :
     a \in {49, 70}, k \in SmokingValues, d \in {"yes", ""}}

CallsInit ==
  /\ params = Null
  /\ result = NoResult
  /\ calls = << >>
  /\ AppMounted
  /\ NothingShared
  /\ WhatIfUnmounted

\* One call of calculateSCORE2Risk on the argument object p: what it returns,
\* and the argument object as the call leaves it.
Call(p) ==
  /\ Len(calls) < MaxCalls
  /\ params' = spreadReferenceParams(p).params
  /\ result' = calculateSCORE2Risk(p)
  /\ calls' = Append(calls, [params |-> p, paramsAfter |-> params',
                             result |-> result'])
  /\ UNCHANGED <<appVars, whatIfVars, shareVars>>

CallsNext == \E p \in CallParamSpace : Call(p)

CallsSpec == CallsInit /\ [][CallsNext]_vars

----------------------------------------------------------------------------
(* C15.  The engine keeps nothing between calls.                           *)

----------------------------------------------------------------------------
(* The App component.                                                      *)
(*                                                                         *)
(* The text of an input field is the sequence of its characters; a radio   *)
(* group or a select holds one of its option values or ''.                 *)

Digits == << "0", "1", "2", "3", "4", "5", "6", "7", "8", "9" >>

IsDigit(c) == \E d \in DOMAIN Digits : Digits[d] = c

DigitValue(c) == (CHOOSE d \in DOMAIN Digits : Digits[d] = c) - 1

\* The longest prefix of text made of digits.
RECURSIVE LeadingDigits(_)
LeadingDigits(text) ==
  IF text = << >> \/ ~IsDigit(Head(text)) THEN << >>
  ELSE << Head(text) >> \o LeadingDigits(Tail(text))

\* The number a sequence of digits writes, after the digits read so far.
RECURSIVE NumberOf(_, _)
NumberOf(digits, acc) ==
  IF digits = << >> THEN acc
  ELSE NumberOf(Tail(digits), acc * 10 + DigitValue(Head(digits)))

\* parseInt(text): an optional sign, then the leading digits; what follows
\* them is ignored; NaN when there is no digit.
parseInt(text) ==
  LET negative == text # << >> /\ Head(text) = "-"
      digits == LeadingDigits(IF negative THEN Tail(text) ELSE text)
  IN  IF digits = << >> THEN NaN
      ELSE IF negative THEN -NumberOf(digits, 0)
      ELSE NumberOf(digits, 0)

\* parseFloat(text), held at PCT: an optional sign, the leading digits, and
\* after a point the first six decimals; NaN when there is no digit.
parseFloat(text) ==
  LET negative == text # << >> /\ Head(text) = "-"
      unsigned == IF negative THEN Tail(text) ELSE text
      whole == LeadingDigits(unsigned)
      rest == SubSeq(unsigned, Len(whole) + 1, Len(unsigned))
      decimals == IF rest # << >> /\ Head(rest) = "."
                  THEN LeadingDigits(Tail(rest)) ELSE << >>
      six == SubSeq(decimals \o << "0", "0", "0", "0", "0", "0" >>, 1, 6)
      value == NumberOf(whole, 0) * PCT + NumberOf(six, 0)
  IN  IF whole = << >> /\ decimals = << >> THEN NaN
      ELSE IF negative THEN -value
      ELSE value

\* Lines 46-57 and 65-76: the object calculateRisk builds from the form, the
\* same for the validator and for the engine.  systolicBP is entered in whole
\* mmHg, so its double is that integer; bmi is passed on and read by neither.
parsedForm(form) ==
  [age |-> parseInt(form.age),
   sex |-> form.sex,
   region |-> form.region,
   smoking |-> form.smoking,
   systolicBP |-> IF parseFloat(form.systolicBP) = NaN THEN NaN
                  ELSE parseFloat(form.systolicBP) \div PCT,
   totalCholesterol |-> parseFloat(form.totalCholesterol),
   cholesterolUnit |-> form.cholesterolUnit,
   hdlCholesterol |-> IF form.hdlCholesterol # << >>
                      THEN parseFloat(form.hdlCholesterol) ELSE 0,
   diabetes |-> form.diabetes]

\* Lines 111-114: the Calculate button is disabled unless this holds.
isFormValid(form) ==
  /\ form.age # << >>
  /\ form.sex # ""
  /\ form.region # ""
  /\ form.smoking # ""
  /\ form.systolicBP # << >>
  /\ form.totalCholesterol # << >>

\* What a user types or picks: each entry is a field and its new value.  An
\* age below 40 is among the entries; hdlCholesterol, diabetes and bmi are
\* left as they are, empty.
FormEntries ==
  {<< "age", t >> : t \in {<< "3", "9" >>, << "5", "5" >>, << "7", "0" >>}}
    \cup {<< "sex", "male" >>, << "region", "moderate" >>, << "smoking", "smoker" >>,
          << "systolicBP", << "1", "5", "0" >> >>,
          << "totalCholesterol", << "6", ".", "2" >> >>}

AppInit ==
  /\ params = Null
  /\ result = NoResult
  /\ calls = << >>
  /\ AppMounted
  /\ NothingShared
  /\ WhatIfUnmounted

\* Lines 37-42
handleInputChange(field, value) ==
  /\ formData' = [formData EXCEPT ![field] = value]
  /\ UNCHANGED <<results, showResults, alertShown, computedFrom, report, shared>>
  /\ UNCHANGED <<harnessVars, calls, whatIfVars, shareVars>>

\* The rejected click taking the displayed result away as well.
calculateRiskRejectedClearing ==
  /\ isFormValid(formData)
  /\ validateSCORE2Inputs(parsedForm(formData)) # << >>
  /\ alertShown' = validateSCORE2Inputs(parsedForm(formData))
  /\ results' = Null
  /\ showResults' = FALSE
  /\ computedFrom' = Null
  /\ UNCHANGED <<formData, report, shared>>
  /\ UNCHANGED <<harnessVars, calls, whatIfVars, shareVars>>

\* Lines 44-62: the click validates, finds errors, alerts and returns.
calculateRiskRejected ==
  /\ isFormValid(formData)
  /\ validateSCORE2Inputs(parsedForm(formData)) # << >>
  /\ alertShown' = validateSCORE2Inputs(parsedForm(formData))
  /\ UNCHANGED <<formData, results, showResults, computedFrom, report, shared>>
  /\ UNCHANGED <<harnessVars, calls, whatIfVars, shareVars>>

\* Lines 44-80: the click validates, finds no error and calls the engine.
calculateRiskAccepted ==
  /\ isFormValid(formData)
  /\ validateSCORE2Inputs(parsedForm(formData)) = << >>
  /\ results' = calculateSCORE2Risk(parsedForm(formData))
  /\ showResults' = TRUE
  /\ computedFrom' = formData
  /\ UNCHANGED <<formData, alertShown, report, shared>>
  /\ UNCHANGED <<harnessVars, calls, whatIfVars, shareVars>>

\* Lines 44-80
calculateRisk == calculateRiskRejected \/ calculateRiskAccepted

\* Lines 82-97
resetForm ==
  /\ formData' = EmptyForm
  /\ results' = Null
  /\ showResults' = FALSE
  /\ computedFrom' = Null
  /\ UNCHANGED <<alertShown, report, shared>>
  /\ UNCHANGED <<harnessVars, calls, whatIfVars, shareVars>>

\* pdfExport.js lines 7-30: the report object built from the two arguments.
generatePDFReport(form, res) ==
  [patientInfo |->
     [age |-> form.age,
      sex |-> form.sex,
      region |-> form.region,
      smoking |-> form.smoking,
      systolicBP |-> form.systolicBP,
      totalCholesterol |-> form.totalCholesterol,
      cholesterolUnit |-> form.cholesterolUnit,
      hdlCholesterol |-> IF form.hdlCholesterol # << >> THEN form.hdlCholesterol
                         ELSE "Not provided",
      diabetes |-> IF form.diabetes # "" THEN form.diabetes ELSE "Not specified",
      bmi |-> IF form.bmi # << >> THEN form.bmi ELSE "Not provided"],
   results |->
     [riskPercentage |-> res.riskPercentage,
      riskCategory |-> res.riskCategory,
      heartAge |-> res.heartAge,
      algorithm |-> res.algorithm,
      interpretation |-> res.interpretation,
      recommendations |-> res.recommendations]]

\* pdfExport.js lines 245-256: what the shared summary states.
shareResults(form, res) ==
  [riskPercentage |-> res.riskPercentage,
   riskCategory |-> res.riskCategory,
   heartAge |-> res.heartAge,
   algorithm |-> res.algorithm,
   interpretation |-> res.interpretation]

\* Lines 99-103: the Export button is shown with the results.
handleExportPDF ==
  /\ showResults
  /\ results # Null
  /\ report' = generatePDFReport(formData, results)
  /\ UNCHANGED <<formData, results, showResults, alertShown, computedFrom, shared>>
  /\ UNCHANGED <<harnessVars, calls, whatIfVars, shareVars>>

\* Lines 105-109
handleShareResults ==
  /\ showResults
  /\ results # Null
  /\ shared' = shareResults(formData, results)
  /\ UNCHANGED <<formData, results, showResults, alertShown, computedFrom, report>>
  /\ UNCHANGED <<harnessVars, calls, whatIfVars, shareVars>>

AppNext ==
  \/ \E entry \in FormEntries : handleInputChange(entry[1], entry[2])
  \/ calculateRisk
  \/ resetForm
  \/ handleExportPDF
  \/ handleShareResults

AppSpec == AppInit /\ [][AppNext]_vars

----------------------------------------------------------------------------
(* C16.  What an exported report says about the patient.                   *)

\* C16: after any sequence of form edits, Calculate clicks and Export or
\* Share clicks, the patient information written into an exported report is
\* the parameter set from which the results in that same report were computed
\* (the input snapshot of that calculation), and exporting or sharing never
\* changes or recomputes any field of results.
C16_ReportShowsInputSnapshot ==
  [][/\ report' # report =>
          /\ report'.results = results
          /\ report'.patientInfo.age = computedFrom.age
          /\ report'.patientInfo.sex = computedFrom.sex
          /\ report'.patientInfo.region = computedFrom.region
          /\ report'.patientInfo.smoking = computedFrom.smoking
          /\ report'.patientInfo.systolicBP = computedFrom.systolicBP
          /\ report'.patientInfo.totalCholesterol = computedFrom.totalCholesterol
          /\ report'.patientInfo.cholesterolUnit = computedFrom.cholesterolUnit
     /\ (report' # report \/ shared' # shared) => results' = results]_vars

----------------------------------------------------------------------------
(* C17.  The engine behind the validator.                                  *)

\* The six input constraints hold of the values parsed from the form.
C17_FormPassesValidation(form) ==
  LET parsed == parsedForm(form)
  IN  /\ parsed.age # NaN /\ parsed.age \in 40..100
      /\ parsed.sex \in {"male", "female"}
      /\ parsed.region \in {"low", "moderate", "high", "very-high"}
      /\ parsed.smoking \in {"smoker", "non-smoker"}
      /\ parsed.systolicBP # NaN /\ parsed.systolicBP \in 80..250
      /\ parsed.totalCholesterol # NaN /\ parsed.totalCholesterol > 0

\* A step of a Calculate click that validation let through: the engine is
\* given the parsed form and its result is put on display.
C17_AcceptedCalculation ==
  /\ C17_FormPassesValidation(formData)
  /\ results' = calculateSCORE2Risk(parsedForm(formData))
  /\ showResults' = TRUE
  /\ computedFrom' = formData
  /\ formData' = formData

\* A step of a Calculate click that validation stopped.
C17_RejectedCalculation == alertShown' # alertShown

\* C17 as claimed: the engine is invoked and results / showResults are set
\* only by a Calculate action whose parsed form values produced an empty
\* validation error list; when validation reports any error the engine is not
\* called and formData, results and showResults are left unchanged.
C17_ResultsSetOnlyByValidCalculate ==
  [][/\ (results' # results \/ showResults' # showResults
           \/ computedFrom' # computedFrom) => C17_AcceptedCalculation
     /\ C17_RejectedCalculation =>
          /\ ~C17_FormPassesValidation(formData)
          /\ formData' = formData
          /\ results' = results
          /\ showResults' = showResults
          /\ computedFrom' = computedFrom]_vars

\* C17 as amended: the engine is invoked, results is given a result and
\* showResults becomes true only by a Calculate action whose parsed form
\* values produced an empty validation error list; the one other handler
\* that writes results and showResults is Reset, which empties the form and
\* sets them to null and false without calling the engine.  When validation
\* reports any error the engine is not called and formData, results and
\* showResults are left unchanged.
C17_ResultsSetOnlyByValidCalculateOrCleared ==
  [][/\ (results' # results \/ showResults' # showResults
           \/ computedFrom' # computedFrom) =>
          \/ C17_AcceptedCalculation
          \/ /\ results' = Null
             /\ showResults' = FALSE
             /\ computedFrom' = Null
             /\ formData' = EmptyForm
     /\ C17_RejectedCalculation =>
          /\ ~C17_FormPassesValidation(formData)
          /\ formData' = formData
          /\ results' = results
          /\ showResults' = showResults
          /\ computedFrom' = computedFrom]_vars

\* A result is on display, the form has since been changed to an age below
\* 40, and the Calculate click on it has been answered by the alert.
C17_Witness ==
  /\ results # Null
  /\ showResults
  /\ alertShown = << "Age must be between 40 and 100 years" >>
  /\ computedFrom # formData
  /\ parseInt(formData.age) < 40
  /\ results = calculateSCORE2Risk(parsedForm(computedFrom))


----------------------------------------------------------------------------
(* The what-if panel, src/src/components/WhatIfSimulation.jsx.  App mounts *)
(* it below a displayed result with the parsed form as originalParams and  *)
(* the result as originalRisk.  A change of a control sets state and       *)
(* schedules the effect of lines 15-27; the effect runs after the render,  *)
(* and further changes may arrive before it has run.                       *)

\* The effect handing the panel's parameters to the engine as they are.
newParamsIgnoringSwitch(sp, nonSmoker) == sp

\* Lines 16-19: the parameters the effect hands to the engine.
newParams(sp, nonSmoker) ==
  [sp EXCEPT !.smoking = IF nonSmoker THEN "non-smoker" ELSE "smoker"]

\* The parameter sets the panel is mounted with: a smoker entered in mmol/L
\* without HDL or diabetes, a diabetic non-smoker entered in mg/dL.
OriginalParamSpace ==
  {[age |-> 55, sex |-> "male", region |-> "moderate", smoking |-> "smoker",
    systolicBP |-> 150, totalCholesterol |-> 6200000,
    cholesterolUnit |-> "mmol/L", hdlCholesterol |-> 0, diabetes |-> ""],
   [age |-> 70, sex |-> "female", region |-> "high", smoking |-> "non-smoker",
    systolicBP |-> 130, totalCholesterol |-> 240000000,
    cholesterolUnit |-> "mg/dL", hdlCholesterol |-> 50000000,
    diabetes |-> "yes"]}

\* Positions of the blood-pressure slider: min 90, max 200, step 5.
SliderSbps == {90, 120, 200}

\* Positions of the cholesterol slider: min 3, max 10, step 0.1.
SliderCholesterols == {3000000, 5500000, 10000000}

\* Lines 10-12: the three useState initial values; the effect is scheduled
\* by the mount.
WhatIfInit ==
  /\ params = Null
  /\ result = NoResult
  /\ calls = << >>
  /\ AppMounted
  /\ NothingShared
  /\ simulationParams \in OriginalParamSpace
  /\ originalRisk = calculateSCORE2Risk(simulationParams)
  /\ simulatedRisk = originalRisk
  /\ isNonSmoker = (simulationParams.smoking = "non-smoker")
  /\ effectPending = TRUE

\* Lines 29-34
handleBPChange(value) ==
  /\ simulationParams' = [simulationParams EXCEPT !.systolicBP = value]
  /\ effectPending' = TRUE
  /\ UNCHANGED <<isNonSmoker, simulatedRisk, originalRisk>>
  /\ UNCHANGED <<harnessVars, calls, appVars, shareVars>>

\* Lines 36-41
handleCholesterolChange(value) ==
  /\ simulationParams' = [simulationParams EXCEPT !.totalCholesterol = value]
  /\ effectPending' = TRUE
  /\ UNCHANGED <<isNonSmoker, simulatedRisk, originalRisk>>
  /\ UNCHANGED <<harnessVars, calls, appVars, shareVars>>

\* The switch: onCheckedChange={setIsNonSmoker} with the other position.
setIsNonSmoker ==
  /\ isNonSmoker' = ~isNonSmoker
  /\ effectPending' = TRUE
  /\ UNCHANGED <<simulationParams, simulatedRisk, originalRisk>>
  /\ UNCHANGED <<harnessVars, calls, appVars, shareVars>>

\* Lines 15-27: the effect.  The engine returns for every parameter set
\* the controls can produce, so the catch branch is not taken.
simulationEffect ==
  /\ effectPending
  /\ simulatedRisk' = calculateSCORE2Risk(newParams(simulationParams, isNonSmoker))
  /\ effectPending' = FALSE
  /\ UNCHANGED <<simulationParams, isNonSmoker, originalRisk>>
  /\ UNCHANGED <<harnessVars, calls, appVars, shareVars>>

WhatIfNext ==
  \/ \E value \in SliderSbps : handleBPChange(value)
  \/ \E value \in SliderCholesterols : handleCholesterolChange(value)
  \/ setIsNonSmoker
  \/ simulationEffect

WhatIfSpec == WhatIfInit /\ [][WhatIfNext]_vars

----------------------------------------------------------------------------
(* C18.  The simulated result follows the controls.                        *)

\* The effect has run since the last change of a control.
C18_Settled == ~effectPending

\* The engine's result for the panel's parameters, smoking from the switch.
C18_Expected ==
  calculateSCORE2Risk([simulationParams EXCEPT
                         !.smoking = IF isNonSmoker THEN "non-smoker"
                                     ELSE "smoker"])

\* C18: in the what-if panel, whenever the effect has run since the last
\* change of a slider or of the switch, the simulated result is the engine's
\* result for the panel's current parameters with smoking taken from the
\* switch, whatever changes came before and in whatever order; and no step
\* of the panel changes the original risk.
C18_SimulationFollowsControls ==
  /\ [](C18_Settled => simulatedRisk = C18_Expected)
  /\ [][originalRisk' = originalRisk]_vars

\* Both sliders moved and the switch flipped, the effect run, and the
\* simulated result different from the original one.
C18_Witness ==
  /\ C18_Settled
  /\ simulationParams.systolicBP = 120
  /\ simulationParams.totalCholesterol = 5500000
  /\ isNonSmoker # (simulationParams.smoking = "non-smoker")
  /\ simulatedRisk # originalRisk
  /\ simulatedRisk = C18_Expected


----------------------------------------------------------------------------
(* The engine on regions outside its table.  calculateSCORE2Risk does not  *)
(* validate: a caller may pass any string, or nothing, as the region.      *)

\* No region at all (the empty string; undefined and null look up the keys
\* "undefined" and "null", which the table lacks as well), a name the table
\* does not list, and two names every object literal inherits.
UnlistedRegions == {"", "north", "constructor", "__proto__"}

UnlistedRegionParamSpace ==
  {[age |-> a, sex |-> s, region |-> r, smoking |-> k, systolicBP |-> 140,
    totalCholesterol |-> l.totalCholesterol,
    cholesterolUnit |-> l.cholesterolUnit,
    hdlCholesterol |-> l.hdlCholesterol, diabetes |-> d] :
     a \in {45, 55, 70}, s \in Sexes, r \in UnlistedRegions,
     k \in SmokingValues, d \in {"no", "yes"},
     l \in {[totalCholesterol |-> 6200000, cholesterolUnit |-> "mmol/L",
             hdlCholesterol |-> 1100000],
            [totalCholesterol |-> 240000000, cholesterolUnit |-> "mg/dL",
             hdlCholesterol |-> 0]}}

UnlistedRegionInit ==
  /\ params \in UnlistedRegionParamSpace
  /\ result = NoResult
  /\ calls = << >>
  /\ AppMounted
  /\ NothingShared
  /\ WhatIfUnmounted

UnlistedRegionSpec == UnlistedRegionInit /\ [][Next]_vars

----------------------------------------------------------------------------
(* C19.  A region outside the table.                                       *)

\* C19: for a region that is missing or not one of the four the engine
\* knows, the engine returns, and what it returns is in every field what it
\* returns for region 'moderate' with the other parameters the same, the
\* heart age (the reference computation) included.
C19_UnlistedRegionIsModerate ==
  Returned =>
    result = calculateSCORE2Risk([params EXCEPT !.region = "moderate"])


----------------------------------------------------------------------------
(* C20.  No diabetes value given.                                          *)

\* C20: when the call carries no diabetes value (the empty string of the
\* form; undefined and null fail the same two tests), the engine returns in
\* every field, the recommendations included, what it returns for diabetes
\* 'no' with the other parameters the same.
C20_AbsentDiabetesIsNo ==
  (Returned /\ params.diabetes = "") =>
    result = calculateSCORE2Risk([params EXCEPT !.diabetes = "no"])

\* A call without a diabetes value whose result is the one for 'no' and not
\* the one for 'yes'.
C20_Witness ==
  /\ Returned
  /\ params.diabetes = ""
  /\ result = calculateSCORE2Risk([params EXCEPT !.diabetes = "no"])
  /\ result # calculateSCORE2Risk([params EXCEPT !.diabetes = "yes"])
  /\ result.riskPercentage
       # calculateSCORE2Risk([params EXCEPT !.diabetes = "yes"]).riskPercentage


----------------------------------------------------------------------------
(* The engine on parameter sets that carry a bmi, as the sets App builds   *)
(* do (App.jsx lines 65-76).  bmi is held at PCT; NaN stands for the null  *)
(* App passes for an empty field.                                          *)

BmiValues == {NaN, 18500000, 27500000, 40000000}

BmiParamSpace ==
  {[age |-> a, sex |-> s, region |-> "moderate", smoking |-> k,
    systolicBP |-> b, totalCholesterol |-> 6200000,
    cholesterolUnit |-> "mmol/L", hdlCholesterol |-> 1100000,
    diabetes |-> d, bmi |-> w] :
     a \in {45, 70}, s \in Sexes, k \in SmokingValues, b \in {125, 150},
     d \in {"no", "yes"}, w \in BmiValues}

BmiInit ==
  /\ params \in BmiParamSpace
  /\ result = NoResult
  /\ calls = << >>
  /\ AppMounted
  /\ NothingShared
  /\ WhatIfUnmounted

BmiSpec == BmiInit /\ [][Next]_vars

----------------------------------------------------------------------------
(* C21.  bmi is not read.                                                  *)

\* The six fields of two results are the same.
C21_SameOutput(one, other) ==
  /\ one.riskPercentage = other.riskPercentage
  /\ one.riskCategory = other.riskCategory
  /\ one.heartAge = other.heartAge
  /\ one.algorithm = other.algorithm
  /\ one.interpretation = other.interpretation
  /\ one.recommendations = other.recommendations

----------------------------------------------------------------------------
(* Sharing, src/src/utils/pdfExport.js lines 245-301.  shareResults builds *)
(* the summary and hands it to navigator.share, to                         *)
(* navigator.clipboard.writeText or to a textarea and                      *)
(* document.execCommand('copy'), whichever the browser has and whichever   *)
(* does not fail.  The first two return promises: the call returns while   *)
(* the promise is pending, and the browser settles it later, either way.   *)
(* A call in progress is a record: the summary, where the call is (pc),    *)
(* the interfaces tried with the outcome of each (steps), and the alerts   *)
(* shown.  The Share button stays enabled while a call is in progress.     *)

MaxShares == 2

COPIED == "Results copied to clipboard!"

UNABLE == "Unable to copy results. Please copy manually."

\* catch (err) without the alert: a failed execCommand ends silently.
fallbackCopyToClipboardSilentCatch(flow, execCommandThrows) ==
  [flow EXCEPT
     !.pc = "done",
     !.steps = Append(@, [api |-> "execCommand",
                          outcome |-> IF execCommandThrows THEN "threw"
                                      ELSE "returned"]),
     !.alerts = IF execCommandThrows THEN @ ELSE Append(@, COPIED)]

\* Lines 277-294: the textarea, execCommand('copy') in try / catch, and one
\* alert on either branch.
fallbackCopyToClipboard(flow, execCommandThrows) ==
  [flow EXCEPT
     !.pc = "done",
     !.steps = Append(@, [api |-> "execCommand",
                          outcome |-> IF execCommandThrows THEN "threw"
                                      ELSE "returned"]),
     !.alerts = Append(@, IF execCommandThrows THEN UNABLE ELSE COPIED)]

\* Lines 264-275, up to the return: writeText is called and its promise is
\* pending, or there is no navigator.clipboard and the fallback runs.
copyToClipboard(flow, nav, execCommandThrows) ==
  IF nav.clipboard
  THEN [flow EXCEPT !.pc = "writing",
                    !.steps = Append(@, [api |-> "writeText",
                                         outcome |-> "pending"])]
  ELSE fallbackCopyToClipboard(flow, execCommandThrows)

\* Lines 245-262, up to the return: navigator.share is called and its
\* promise is pending, or there is no navigator.share and copyToClipboard
\* runs.
shareResultsStarted(summary, nav, execCommandThrows) ==
  IF nav.share
  THEN [summary |-> summary, pc |-> "sharing",
        steps |-> << [api |-> "share", outcome |-> "pending"] >>,
        alerts |-> << >>]
  ELSE copyToClipboard([summary |-> summary, pc |-> "called",
                        steps |-> << >>, alerts |-> << >>],
                       nav, execCommandThrows)

\* The last step of a call settled with the given outcome.
settled(flow, outcome) ==
  [flow EXCEPT !.steps[Len(flow.steps)].outcome = outcome]

\* The form of a patient of the given age, filled in and calculated.
FilledForm(age) ==
  [EmptyForm EXCEPT !.age = age, !.sex = "male", !.region = "moderate",
                    !.smoking = "smoker", !.systolicBP = << "1", "5", "0" >>,
                    !.totalCholesterol = << "6", ".", "2" >>]

\* The page shows a result; the browser has any of the two interfaces.
ShareInit ==
  /\ params = Null
  /\ result = NoResult
  /\ calls = << >>
  /\ formData \in {FilledForm(<< "5", "5" >>), FilledForm(<< "7", "0" >>)}
  /\ results = calculateSCORE2Risk(parsedForm(formData))
  /\ showResults = TRUE
  /\ alertShown = << >>
  /\ computedFrom = formData
  /\ report = Null
  /\ shared = Null
  /\ WhatIfUnmounted
  /\ navigator \in [share : BOOLEAN, clipboard : BOOLEAN]
  /\ shares = << >>

\* App.jsx lines 105-109 and shareResults up to its return.
shareClicked ==
  /\ showResults
  /\ results # Null
  /\ Len(shares) < MaxShares
  /\ shared' = shareResults(formData, results)
  /\ \E execCommandThrows \in BOOLEAN :
       shares' = Append(shares, shareResultsStarted(shareResults(formData, results),
                                                    navigator, execCommandThrows))
  /\ UNCHANGED <<formData, results, showResults, alertShown, computedFrom, report>>
  /\ UNCHANGED <<harnessVars, calls, whatIfVars, navigator>>

\* The promise of navigator.share is fulfilled: no handler is attached.
shareResolved(i) ==
  /\ i \in DOMAIN shares
  /\ shares[i].pc = "sharing"
  /\ shares' = [shares EXCEPT ![i] = [settled(@, "resolved") EXCEPT !.pc = "shared"]]
  /\ UNCHANGED <<harnessVars, calls, appVars, whatIfVars, navigator>>

\* Lines 258-261: the promise of navigator.share is rejected.
shareRejected(i) ==
  /\ i \in DOMAIN shares
  /\ shares[i].pc = "sharing"
  /\ \E execCommandThrows \in BOOLEAN :
       shares' = [shares EXCEPT ![i] = copyToClipboard(settled(@, "rejected"),
                                                       navigator, execCommandThrows)]
  /\ UNCHANGED <<harnessVars, calls, appVars, whatIfVars, navigator>>

\* Lines 266-268: the promise of writeText is fulfilled.
writeTextResolved(i) ==
  /\ i \in DOMAIN shares
  /\ shares[i].pc = "writing"
  /\ shares' = [shares EXCEPT ![i] = [settled(@, "resolved") EXCEPT
                                        !.pc = "done",
                                        !.alerts = Append(@, COPIED)]]
  /\ UNCHANGED <<harnessVars, calls, appVars, whatIfVars, navigator>>

\* Lines 268-271: the promise of writeText is rejected.
writeTextRejected(i) ==
  /\ i \in DOMAIN shares
  /\ shares[i].pc = "writing"
  /\ \E execCommandThrows \in BOOLEAN :
       shares' = [shares EXCEPT ![i] = fallbackCopyToClipboard(settled(@, "rejected"),
                                                               execCommandThrows)]
  /\ UNCHANGED <<harnessVars, calls, appVars, whatIfVars, navigator>>

\* The browser settles a pending promise of the call, one way or the other.
promiseSettled(i) ==
  \/ shareResolved(i)
  \/ shareRejected(i)
  \/ writeTextResolved(i)
  \/ writeTextRejected(i)

ShareNext ==
  \/ shareClicked
  \/ \E i \in 1..MaxShares : shareResolved(i)
  \/ \E i \in 1..MaxShares : shareRejected(i)
  \/ \E i \in 1..MaxShares : writeTextResolved(i)
  \/ \E i \in 1..MaxShares : writeTextRejected(i)

\* Every promise the browser returned is settled in the end.
ShareSpec ==
  /\ ShareInit
  /\ [][ShareNext]_vars
  /\ \A i \in 1..MaxShares : WF_vars(promiseSettled(i))

----------------------------------------------------------------------------
(* C22.  A call of shareResults ends, with something for the user to see.  *)

\* The call is over: the share sheet took the summary, or an alert is up.
C22_Ended(flow) == flow.pc \in {"shared", "done"}

\* The interface tried first, and the one tried after a rejected promise.
C22_First ==
  IF navigator.share THEN "share"
  ELSE IF navigator.clipboard THEN "writeText" ELSE "execCommand"

C22_After(api) ==
  IF api = "share" /\ navigator.clipboard THEN "writeText" ELSE "execCommand"

\* The steps of a call follow the fallback chain: each step but the last
\* was rejected and is followed by the next interface the browser has.
C22_Chain(flow) ==
  /\ flow.steps # << >>
  /\ flow.steps[1].api = C22_First
  /\ \A k \in 1..(Len(flow.steps) - 1) :
       /\ flow.steps[k].outcome = "rejected"
       /\ flow.steps[k + 1].api = C22_After(flow.steps[k].api)

\* What the user has seen of a call, by its last step.
C22_Outcome(flow) ==
  LET last == flow.steps[Len(flow.steps)]
  IN  CASE last.outcome = "pending" ->
             /\ ~C22_Ended(flow)
             /\ flow.alerts = << >>
        [] last.api = "share" /\ last.outcome = "resolved" ->
             /\ flow.pc = "shared"
             /\ flow.alerts = << >>
        [] last.api = "writeText" /\ last.outcome = "resolved" ->
             /\ flow.pc = "done"
             /\ flow.alerts = << COPIED >>
        [] last.api = "execCommand" /\ last.outcome = "returned" ->
             /\ flow.pc = "done"
             /\ flow.alerts = << COPIED >>
        [] last.api = "execCommand" /\ last.outcome = "threw" ->
             /\ flow.pc = "done"
             /\ flow.alerts = << UNABLE >>
        [] OTHER -> FALSE

C22_PathsAndAlerts ==
  \A i \in DOMAIN shares : C22_Chain(shares[i]) /\ C22_Outcome(shares[i])

\* C22: every call of shareResults comes to an end, whatever the browser has
\* and however its promises settle: without navigator.share, or when its
\* promise is rejected, the clipboard copy is tried; without
\* navigator.clipboard, or when its promise is rejected, the textarea copy is
\* tried; a call that did not end in a fulfilled navigator.share has shown
\* exactly one alert, 'copied' or 'unable to copy', and a call that did has
\* shown none; and results is never written.
C22_ShareEndsWithOutcome ==
  /\ []C22_PathsAndAlerts
  /\ \A i \in 1..MaxShares :
       (Len(shares) >= i) ~> (Len(shares) >= i /\ C22_Ended(shares[i]))
  /\ [][results' = results]_vars

\* A call that went down the whole chain: share rejected, writeText
\* rejected, execCommand threw, and the one alert says so.
C22_Witness ==
  \E i \in DOMAIN shares :
    /\ Len(shares[i].steps) = 3
    /\ shares[i].steps[3].outcome = "threw"
    /\ shares[i].alerts = << UNABLE >>
    /\ C22_Ended(shares[i])
    /\ results = calculateSCORE2Risk(parsedForm(formData))


----------------------------------------------------------------------------
(* C23.  Clamp, then categorize and heart age, then round.                 *)

\* The result res of the call on p agrees with the clamped percentage x:
\* x lies in [0.1, 50], the category is the one of the age-banded table for
\* x, the heart age is the one computed from x, and the returned percentage
\* is x rounded to one decimal.
C23_Agrees(p, res, x) ==
  /\ x >= PCT \div 10
  /\ x <= 50 * PCT
  /\ res.riskCategory = CategoryOfReported(x, p.age)
  /\ res.heartAge = calculateHeartAge(p, x)
  /\ res.riskPercentage = roundToTenth(x)

\* C23: the category and the heart age of a result are computed from the
\* percentage after the clamp to [0.1, 50] and before the rounding, the
\* category by the cut points 2.5 / 7.5 / 10 below age 50 and 5 / 10 / 15
\* from age 50, and the returned riskPercentage is that percentage rounded
\* to one decimal.
C23_ClampCategorizeRound ==
  Returned =>
    C23_Agrees(params, result, clampRisk(riskPercentageBeforeClampOf(params)))

\* A result whose category is the one of the unrounded percentage and not
\* the one of the returned percentage.
C23_Witness ==
  /\ Returned
  /\ result.riskCategory # CategoryOfReported(result.riskPercentage, params.age)
  /\ C23_Agrees(params, result, clampRisk(riskPercentageBeforeClampOf(params)))


----------------------------------------------------------------------------
(* C24.  The two gates on the category.                                    *)

C24_General ==
  << "Engage in regular physical activity (at least 150 minutes of moderate exercise per week)",
     "Maintain a healthy weight (BMI 18.5-24.9)",
     "Limit alcohol consumption",
     "Consider low-dose aspirin therapy (consult your doctor)" >>

C24_Maintenance ==
  << "Maintain your current healthy lifestyle",
     "Continue regular physical activity and healthy diet",
     "Regular health check-ups every 2-3 years" >>

\* The list ends with the strings of tail, in their order.
C24_EndsWith(list, tail) ==
  /\ Len(list) >= Len(tail)
  /\ SubSeq(list, Len(list) - Len(tail) + 1, Len(list)) = tail

\* A string of tail is somewhere in the list.
C24_Mentions(list, tail) == Range(list) \cap Range(tail) # {}

\* C24: the recommendations of every result end with the four general
\* lifestyle strings exactly when the category is moderate, high or
\* very-high, and with the three maintenance strings exactly when it is
\* low; strings of the two groups never appear in the same list and one of
\* the groups always does, so the list has at least 3 strings, and at most
\* 15.
C24_OneCategoryGate ==
  Returned =>
    /\ C24_EndsWith(result.recommendations, C24_General)
         <=> result.riskCategory \in {"moderate", "high", "very-high"}
    /\ C24_EndsWith(result.recommendations, C24_Maintenance)
         <=> result.riskCategory = "low"
    /\ ~(C24_Mentions(result.recommendations, C24_General)
           /\ C24_Mentions(result.recommendations, C24_Maintenance))
    /\ C24_Mentions(result.recommendations, C24_General)
         \/ C24_Mentions(result.recommendations, C24_Maintenance)
    /\ Len(result.recommendations) >= 3
    /\ Len(result.recommendations) <= 15

\* A low-risk result with the maintenance strings after other advice.
C24_Witness ==
  /\ Returned
  /\ result.riskCategory = "low"
  /\ C24_EndsWith(result.recommendations, C24_Maintenance)
  /\ Len(result.recommendations) > 3
  /\ ~C24_Mentions(result.recommendations, C24_General)


----------------------------------------------------------------------------
(* The engine on blood pressures at and next to the two tests of lines     *)
(* 233 and 237.                                                            *)

BoundarySbps == {129, 130, 131, 139, 140, 141}

BoundarySbpParamSpace ==
  {[age |-> a, sex |-> s, region |-> "moderate", smoking |-> k,
    systolicBP |-> b, totalCholesterol |-> 6200000,
    cholesterolUnit |-> "mmol/L", hdlCholesterol |-> 1100000,
    diabetes |-> d] :
     a \in {45, 70}, s \in Sexes, k \in SmokingValues, b \in BoundarySbps,
     d \in {"no", "yes"}}

BoundarySbpInit ==
  /\ params \in BoundarySbpParamSpace
  /\ result = NoResult
  /\ calls = << >>
  /\ AppMounted
  /\ NothingShared
  /\ WhatIfUnmounted

BoundarySbpSpec == BoundarySbpInit /\ [][Next]_vars

----------------------------------------------------------------------------
(* C25.  The blood-pressure gate.                                          *)

C25_Management ==
  << "Discuss blood pressure management with your doctor",
     "Reduce salt intake and increase physical activity",
     "Consider antihypertensive medication if lifestyle changes are insufficient" >>

C25_Monitor ==
  << "Monitor blood pressure regularly and maintain a healthy lifestyle" >>

C25_AboutBloodPressure(text) ==
  text \in Range(C25_Management) \cup Range(C25_Monitor)

\* C25: the blood-pressure strings of a result are the three management
\* strings when systolicBP > 140, the one monitor string when
\* 130 < systolicBP <= 140, and none when systolicBP <= 130: one of the
\* three outcomes, and the monitor string never next to a management
\* string.
C25_BloodPressureGate ==
  Returned =>
    SelectSeq(result.recommendations, C25_AboutBloodPressure)
      = IF params.systolicBP > 140 THEN C25_Management
        ELSE IF params.systolicBP > 130 THEN C25_Monitor
        ELSE << >>

\* A result for exactly 140 mmHg: the monitor string and no management
\* string.
C25_Witness ==
  /\ Returned
  /\ params.systolicBP = 140
  /\ SelectSeq(result.recommendations, C25_AboutBloodPressure) = C25_Monitor


----------------------------------------------------------------------------
(* The page with its what-if panel.  App renders WhatIfSimulation inside   *)
(* the results pane (App.jsx lines 336 and 434-449): the panel is mounted  *)
(* by the render that first shows results and unmounted by the one that    *)
(* hides them.  originalParams and originalRisk are props, read from the   *)
(* form and from results at every render; simulationParams, simulatedRisk  *)
(* and isNonSmoker are state, given their initial values at the mount and  *)
(* kept across renders.  The controls of the panel are left alone here.    *)

\* Lines 37-42, with the panel re-rendered if it is there.
handleInputChangeWithPanel(field, value) ==
  /\ formData' = [formData EXCEPT ![field] = value]
  /\ UNCHANGED <<results, showResults, alertShown, computedFrom, report, shared>>
  /\ UNCHANGED <<harnessVars, calls, whatIfVars, shareVars>>

\* Lines 44-62: nothing is set, nothing is rendered anew.
calculateRiskRejectedWithPanel ==
  /\ isFormValid(formData)
  /\ validateSCORE2Inputs(parsedForm(formData)) # << >>
  /\ alertShown' = validateSCORE2Inputs(parsedForm(formData))
  /\ UNCHANGED <<formData, results, showResults, computedFrom, report, shared>>
  /\ UNCHANGED <<harnessVars, calls, whatIfVars, shareVars>>

\* The panel's state after a render that shows res for the form: mounted
\* with lines 10-12 if it was not there, as it was if it was.
panelRendered(wasShown, form, res) ==
  IF wasShown
  THEN [simulationParams |-> simulationParams, simulatedRisk |-> simulatedRisk,
        isNonSmoker |-> isNonSmoker, effectPending |-> effectPending]
  ELSE [simulationParams |-> parsedForm(form), simulatedRisk |-> res,
        isNonSmoker |-> (form.smoking = "non-smoker"), effectPending |-> TRUE]

\* The what-if variables take the panel's state, and the prop its value.
panelIs(panel, res) ==
  /\ simulationParams' = panel.simulationParams
  /\ simulatedRisk' = panel.simulatedRisk
  /\ isNonSmoker' = panel.isNonSmoker
  /\ effectPending' = panel.effectPending
  /\ originalRisk' = res

\* Lines 44-80 and 434-449: the engine is called, results is set and shown.
calculateRiskAcceptedWithPanel ==
  /\ isFormValid(formData)
  /\ validateSCORE2Inputs(parsedForm(formData)) = << >>
  /\ results' = calculateSCORE2Risk(parsedForm(formData))
  /\ showResults' = TRUE
  /\ computedFrom' = formData
  /\ panelIs(panelRendered(showResults, formData, results'), results')
  /\ UNCHANGED <<formData, alertShown, report, shared>>
  /\ UNCHANGED <<harnessVars, calls, shareVars>>

\* Lines 82-97: the results pane goes, and the panel with it.
resetFormWithPanel ==
  /\ formData' = EmptyForm
  /\ results' = Null
  /\ showResults' = FALSE
  /\ computedFrom' = Null
  /\ simulationParams' = Null
  /\ isNonSmoker' = FALSE
  /\ simulatedRisk' = Null
  /\ originalRisk' = Null
  /\ effectPending' = FALSE
  /\ UNCHANGED <<alertShown, report, shared>>
  /\ UNCHANGED <<harnessVars, calls, shareVars>>

PageNext ==
  \/ \E entry \in FormEntries : handleInputChangeWithPanel(entry[1], entry[2])
  \/ calculateRiskRejectedWithPanel
  \/ calculateRiskAcceptedWithPanel
  \/ resetFormWithPanel
  \/ simulationEffect

PageSpec == AppInit /\ [][PageNext]_vars

----------------------------------------------------------------------------
(* C26.  The untouched panel against the displayed risk.                   *)

\* C26: while the results pane, and with it the what-if panel, is shown and
\* no control of the panel has been moved, the simulated risk the panel
\* displays is the current risk it displays (the difference is 0), after
\* any number of edits of the form and of Calculate clicks.
C26_UntouchedPanelShowsCurrentRisk ==
  showResults =>
    /\ originalRisk = results
    /\ simulatedRisk.riskPercentage = originalRisk.riskPercentage


----------------------------------------------------------------------------
(* The engine on what validateSCORE2Inputs lets through.  The validator    *)
(* tests the six required fields and not hdlCholesterol: the HDL field of  *)
(* the form is a number input without min, and calculateRisk passes its    *)
(* parseFloat on whenever the text is not empty.                           *)

\* No HDL, three plausible values, one below zero.
OptionalHdls == {0, 900000, 1100000, 2500000, -1000000}

CandidateParamSpace ==
  {[age |-> a, sex |-> s, region |-> r, smoking |-> k, systolicBP |-> b,
    totalCholesterol |-> 6200000, cholesterolUnit |-> "mmol/L",
    hdlCholesterol |-> h, diabetes |-> ""] :
     a \in {39, 40, 69, 100}, s \in Sexes, r \in {"low", "very-high"},
     k \in SmokingValues, b \in {80, 250, 251}, h \in OptionalHdls}

ValidatedParamSpace ==
  {p \in CandidateParamSpace : validateSCORE2Inputs(p) = << >>}

ValidatedInit ==
  /\ params \in ValidatedParamSpace
  /\ result = NoResult
  /\ calls = << >>
  /\ AppMounted
  /\ NothingShared
  /\ WhatIfUnmounted

ValidatedSpec == ValidatedInit /\ [][Next]_vars

----------------------------------------------------------------------------
(* C27.  Validated input, well-defined result.                             *)

\* C27: for every parameter set the validator accepts, with any HDL value
\* or none, the engine returns a riskPercentage that is a number within
\* [0.1, 50] and a heartAge that is a number within [age, 100].
C27_ValidatedGivesNumbers ==
  Returned =>
    /\ result.riskPercentage # NaN
    /\ result.riskPercentage >= PCT \div 10
    /\ result.riskPercentage <= 50 * PCT
    /\ result.heartAge # NaN
    /\ result.heartAge >= params.age
    /\ result.heartAge <= 100


----------------------------------------------------------------------------
(* C28.  The unit of the cholesterol slider.                               *)

\* The parameter set that states p with its cholesterol values in mmol/L.
C28_InMmol(p) ==
  [p EXCEPT !.cholesterolUnit = "mmol/L",
            !.hdlCholesterol = toMmol(p.hdlCholesterol, p.cholesterolUnit)]

\* The panel's total cholesterol is a position of the slider.
C28_SetBySlider ==
  /\ simulationParams # Null
  /\ simulationParams.totalCholesterol \in SliderCholesterols

\* C28: once the effect has run after the cholesterol slider was moved, the
\* simulated result is the engine's result for the slider's value taken as
\* mmol/L, for an original parameter set entered in mg/dL as well: the
\* slider's value is not divided by 38.67.
C28_SliderReadAsMmol ==
  (C18_Settled /\ C28_SetBySlider) =>
    simulatedRisk
      = calculateSCORE2Risk(C28_InMmol([simulationParams EXCEPT
                                          !.totalCholesterol = @,
                                          !.smoking = IF isNonSmoker
                                                      THEN "non-smoker"
                                                      ELSE "smoker"]))

====
